---- MODULE Spec2Model ----
(***************************************************************************)
(* Model of YewChat/src/components/chat.rs: the Chat component (create,    *)
(* update, view), the JSON wire codec derived for WebSocketMessage and     *)
(* MessageData, and the collaborators the component talks to (the          *)
(* transport sender wss.tx, the logger, the event bus).                    *)
(*                                                                         *)
(* A Rust String is a sequence of tokens (TLA+ strings standing for a      *)
(* character or an unbroken run of characters), so that format!, JSON      *)
(* escaping and JSON parsing are computed, not assumed.                    *)
(* Option<T> and Result<T, _> are sequences of length 0 or 1.              *)
(***************************************************************************)
EXTENDS Integers, Sequences, FiniteSets, TLC

VARIABLES
    username,        \* User context: the local user name read by create
    status,          \* per chat: "absent", "running" or "panicked:<where>"
    users,           \* per chat: Chat.users, Vec<UserProfile>
    messages,        \* per chat: Chat.messages, Vec<MessageData>
    chat_input,      \* per chat: the input element behind Chat.chat_input
    wss,             \* per chat: every try_send made on Chat.wss.tx
    log,             \* per chat: the log::debug! lines it wrote
    render_pending,  \* per chat: a render (view) is scheduled
    ret,             \* per chat: the value the last update returned
    submits,         \* per chat: number of Msg::SubmitMessage dispatched
    subscribers,     \* event bus: bridged chats, in subscription order
    deliveries,      \* event bus: every handler invocation <<chat, payload>>
    published,       \* event bus: number of payloads published
    codec            \* scratch record of the codec round-trip specification

vars == <<username, status, users, messages, chat_input, wss, log,
          render_pending, ret, submits, subscribers, deliveries, published,
          codec>>

(***************************************************************************)
(* Bounds                                                                  *)
(***************************************************************************)
MaxChats == 2
MaxPublish == 2
MaxSubmit == 1
MaxUsers == 2
MaxArr == 2

Chats == 1..MaxChats

(***************************************************************************)
(* Option / Result                                                         *)
(***************************************************************************)
None == <<>>
Some(x) == <<x>>
Err == <<>>
Ok(x) == <<x>>

(***************************************************************************)
(* Strings                                                                 *)
(***************************************************************************)
QUOTE == "\""
BSLASH == "\\"
EmptyStr == <<>>
Str(a) == <<a>>

RECURSIVE Join(_, _)
Join(ss, sep) ==
    IF ss = <<>> THEN <<>>
    ELSE IF Len(ss) = 1 THEN ss[1]
    ELSE ss[1] \o sep \o Join(Tail(ss), sep)

\* let r = e; F(r): e is evaluated once and r is bound to its value.
Let(e, F(_)) == CHOOSE v \in {F(r) : r \in {e}} : TRUE

IsPrefix(s, t) == Len(s) <= Len(t) /\ SubSeq(t, 1, Len(s)) = s

Range(f) == {f[i] : i \in DOMAIN f}

SeqsUpTo(S, n) == UNION {[1..k -> S] : k \in 0..n}

(***************************************************************************)
(* serde_json serialisation                                                *)
(***************************************************************************)
\* Variant: only the quote is escaped, a backslash is written as it is.
RECURSIVE Escape_QuoteOnly(_)
Escape_QuoteOnly(s) ==
    IF s = <<>> THEN <<>>
    ELSE (IF Head(s) = QUOTE THEN <<BSLASH, Head(s)>> ELSE <<Head(s)>>)
         \o Escape_QuoteOnly(Tail(s))

RECURSIVE Escape(_)
Escape(s) ==
    IF s = <<>> THEN <<>>
    ELSE (IF Head(s) \in {QUOTE, BSLASH} THEN <<BSLASH, Head(s)>> ELSE <<Head(s)>>)
         \o Escape(Tail(s))

SerString(s) == <<QUOTE>> \o Escape(s) \o <<QUOTE>>

SerVecString(v) ==
    <<"[">> \o Join([i \in DOMAIN v |-> SerString(v[i])], <<",">>) \o <<"]">>

SerOptString(o) == IF o = None THEN <<"null">> ELSE SerString(o[1])

SerOptVecString(o) == IF o = None THEN <<"null">> ELSE SerVecString(o[1])

\* #[serde(rename_all = "lowercase")] on MsgTypes
MsgTypes == {"Users", "Register", "Message"}

VariantTag(t) ==
    CASE t = "Users" -> Str("users")
      [] t = "Register" -> Str("register")
      [] t = "Message" -> Str("message")

SerMsgTypes(t) == SerString(VariantTag(t))

\* serde_json::to_string(&WebSocketMessage): fields in declaration order,
\* #[serde(rename_all = "camelCase")], None written as null.
to_string(m) ==
    <<"{">> \o SerString(Str("messageType")) \o <<":">> \o SerMsgTypes(m.message_type)
    \o <<",">> \o SerString(Str("dataArray")) \o <<":">> \o SerOptVecString(m.data_array)
    \o <<",">> \o SerString(Str("data")) \o <<":">> \o SerOptString(m.data)
    \o <<"}">>

WebSocketMessage(t, da, d) == [message_type |-> t, data_array |-> da, data |-> d]

(***************************************************************************)
(* serde_json parsing: text -> JSON value                                  *)
(***************************************************************************)
JNull == [t |-> "null", s |-> <<>>, a |-> <<>>]
JLit(tok) == [t |-> "lit", s |-> <<tok>>, a |-> <<>>]
JStr(s) == [t |-> "str", s |-> s, a |-> <<>>]
JArr(a) == [t |-> "arr", s |-> <<>>, a |-> a]
JObj(a) == [t |-> "obj", s |-> <<>>, a |-> a]

Scalars == {"true", "false", "0", "1"}

Fail == [ok |-> FALSE, val |-> JNull, next |-> 0]
Parsed(v, n) == [ok |-> TRUE, val |-> v, next |-> n]

RECURSIVE ScanStr(_, _, _)
ScanStr(toks, j, acc) ==
    IF j > Len(toks) THEN Fail
    ELSE IF toks[j] = QUOTE THEN Parsed(JStr(acc), j + 1)
    ELSE IF toks[j] = BSLASH
         THEN IF j + 1 <= Len(toks) /\ toks[j + 1] \in {QUOTE, BSLASH}
              THEN ScanStr(toks, j + 2, Append(acc, toks[j + 1]))
              ELSE Fail
    ELSE ScanStr(toks, j + 1, Append(acc, toks[j]))

RECURSIVE ParseValue(_, _)
RECURSIVE ParseElements(_, _, _)
RECURSIVE ParseMembers(_, _, _)

ParseValue(toks, i) ==
    IF i > Len(toks) THEN Fail
    ELSE CASE toks[i] = QUOTE -> ScanStr(toks, i + 1, <<>>)
           [] toks[i] = "null" -> Parsed(JNull, i + 1)
           [] toks[i] \in Scalars -> Parsed(JLit(toks[i]), i + 1)
           [] toks[i] = "[" ->
                IF i + 1 <= Len(toks) /\ toks[i + 1] = "]"
                THEN Parsed(JArr(<<>>), i + 2)
                ELSE ParseElements(toks, i + 1, <<>>)
           [] toks[i] = "{" ->
                IF i + 1 <= Len(toks) /\ toks[i + 1] = "}"
                THEN Parsed(JObj(<<>>), i + 2)
                ELSE ParseMembers(toks, i + 1, <<>>)
           [] OTHER -> Fail

ParseElements(toks, i, acc) ==
    Let(ParseValue(toks, i), LAMBDA r :
        IF ~r.ok \/ r.next > Len(toks) THEN Fail
        ELSE IF toks[r.next] = "," THEN ParseElements(toks, r.next + 1, Append(acc, r.val))
        ELSE IF toks[r.next] = "]" THEN Parsed(JArr(Append(acc, r.val)), r.next + 1)
        ELSE Fail)

ParseMembers(toks, i, acc) ==
    IF i > Len(toks) \/ toks[i] # QUOTE THEN Fail
    ELSE Let(ScanStr(toks, i + 1, <<>>), LAMBDA k :
         IF ~k.ok \/ k.next > Len(toks) \/ toks[k.next] # ":" THEN Fail
         ELSE Let(ParseValue(toks, k.next + 1), LAMBDA v :
              IF ~v.ok \/ v.next > Len(toks) THEN Fail
              ELSE IF toks[v.next] = ","
                   THEN ParseMembers(toks, v.next + 1,
                                     Append(acc, [k |-> k.val.s, v |-> v.val]))
              ELSE IF toks[v.next] = "}"
                   THEN Parsed(JObj(Append(acc, [k |-> k.val.s, v |-> v.val])), v.next + 1)
              ELSE Fail))

\* The whole text must be one JSON value (trailing characters are an error).
ParseDocument(toks) ==
    Let(ParseValue(toks, 1), LAMBDA r :
        IF r.ok /\ r.next = Len(toks) + 1 THEN Ok(r.val) ELSE Err)

(***************************************************************************)
(* serde Deserialize: JSON value -> typed value                            *)
(***************************************************************************)
DeString(v) == IF v.t = "str" THEN Ok(v.s) ELSE Err

DeOptString(v) ==
    IF v.t = "null" THEN Ok(None)
    ELSE IF v.t = "str" THEN Ok(Some(v.s))
    ELSE Err

DeVecString(v) ==
    IF v.t = "arr" /\ \A i \in DOMAIN v.a : v.a[i].t = "str"
    THEN Ok([i \in DOMAIN v.a |-> v.a[i].s])
    ELSE Err

DeOptVecString(v) ==
    IF v.t = "null" THEN Ok(None)
    ELSE LET r == DeVecString(v) IN IF r = Err THEN Err ELSE Ok(Some(r[1]))

TagVariant(s) ==
    IF s = Str("users") THEN Ok("Users")
    ELSE IF s = Str("register") THEN Ok("Register")
    ELSE IF s = Str("message") THEN Ok("Message")
    ELSE Err

\* A unit variant is written "tag"; serde_json also reads {"tag": null}.
DeMsgTypes(v) ==
    IF v.t = "str" THEN TagVariant(v.s)
    ELSE IF v.t = "obj" /\ Len(v.a) = 1 /\ v.a[1].v.t = "null" THEN TagVariant(v.a[1].k)
    ELSE Err

\* derive(Deserialize) visit_map of WebSocketMessage: unknown keys ignored,
\* a duplicate key is an error, a missing Option field is None, a missing
\* messageType is an error.
RECURSIVE VisitMapWsm(_, _, _)
VisitMapWsm(ms, i, st) ==
    IF i > Len(ms)
    THEN IF st.mt = None THEN Err
         ELSE Ok(WebSocketMessage(st.mt[1],
                                  IF st.da = None THEN None ELSE st.da[1],
                                  IF st.d = None THEN None ELSE st.d[1]))
    ELSE LET m == ms[i] IN
         IF m.k = Str("messageType")
         THEN LET r == DeMsgTypes(m.v) IN
              IF st.mt # None \/ r = Err THEN Err
              ELSE VisitMapWsm(ms, i + 1, [st EXCEPT !.mt = Some(r[1])])
         ELSE IF m.k = Str("dataArray")
         THEN LET r == DeOptVecString(m.v) IN
              IF st.da # None \/ r = Err THEN Err
              ELSE VisitMapWsm(ms, i + 1, [st EXCEPT !.da = Some(r[1])])
         ELSE IF m.k = Str("data")
         THEN LET r == DeOptString(m.v) IN
              IF st.d # None \/ r = Err THEN Err
              ELSE VisitMapWsm(ms, i + 1, [st EXCEPT !.d = Some(r[1])])
         ELSE VisitMapWsm(ms, i + 1, st)

\* derive(Deserialize) visit_seq: the three fields by position, exactly.
VisitSeqWsm(a) ==
    IF Len(a) # 3 THEN Err
    ELSE LET mt == DeMsgTypes(a[1])
             da == DeOptVecString(a[2])
             d == DeOptString(a[3])
         IN IF mt = Err \/ da = Err \/ d = Err THEN Err
            ELSE Ok(WebSocketMessage(mt[1], da[1], d[1]))

\* serde_json::from_str::<WebSocketMessage>
from_str_WebSocketMessage(text) ==
    Let(ParseDocument(text), LAMBDA doc :
        IF doc = Err THEN Err
        ELSE IF doc[1].t = "obj"
             THEN VisitMapWsm(doc[1].a, 1, [mt |-> None, da |-> None, d |-> None])
        ELSE IF doc[1].t = "arr" THEN VisitSeqWsm(doc[1].a)
        ELSE Err)

MessageData(f, m) == [from |-> f, message |-> m]

RECURSIVE VisitMapMd(_, _, _)
VisitMapMd(ms, i, st) ==
    IF i > Len(ms)
    THEN IF st.from = None \/ st.message = None THEN Err
         ELSE Ok(MessageData(st.from[1], st.message[1]))
    ELSE LET m == ms[i] IN
         IF m.k = Str("from")
         THEN LET r == DeString(m.v) IN
              IF st.from # None \/ r = Err THEN Err
              ELSE VisitMapMd(ms, i + 1, [st EXCEPT !.from = Some(r[1])])
         ELSE IF m.k = Str("message")
         THEN LET r == DeString(m.v) IN
              IF st.message # None \/ r = Err THEN Err
              ELSE VisitMapMd(ms, i + 1, [st EXCEPT !.message = Some(r[1])])
         ELSE VisitMapMd(ms, i + 1, st)

VisitSeqMd(a) ==
    IF Len(a) # 2 THEN Err
    ELSE LET f == DeString(a[1])
             m == DeString(a[2])
         IN IF f = Err \/ m = Err THEN Err ELSE Ok(MessageData(f[1], m[1]))

\* serde_json::from_str::<MessageData>
from_str_MessageData(text) ==
    Let(ParseDocument(text), LAMBDA doc :
        IF doc = Err THEN Err
        ELSE IF doc[1].t = "obj"
             THEN VisitMapMd(doc[1].a, 1, [from |-> None, message |-> None])
        ELSE IF doc[1].t = "arr" THEN VisitSeqMd(doc[1].a)
        ELSE Err)

(***************************************************************************)
(* Inbound wire texts (what the server puts on the socket)                 *)
(***************************************************************************)
Names == {Str("alice"), Str("bob")}
Bodies == {Str("hi"), Str("hello.gif")}
TypedTexts == {Str("hello.gif"), <<"say", QUOTE, "hi", QUOTE>>}

\* A JSON object text from <<key, value text>> pairs.
ObjText(ms) ==
    <<"{">> \o Join([i \in DOMAIN ms |-> SerString(ms[i][1]) \o <<":">> \o ms[i][2]], <<",">>)
    \o <<"}">>

TypeMember(tag) == <<Str("messageType"), SerString(Str(tag))>>

UsersText(arr) == ObjText(<<TypeMember("users"), <<Str("dataArray"), SerVecString(arr)>>>>)

UsersAbsentText == ObjText(<<TypeMember("users")>>)

UsersNullText == ObjText(<<TypeMember("users"), <<Str("dataArray"), <<"null">>>>>>)

MessageDataText(f, m) ==
    ObjText(<<<<Str("from"), SerString(f)>>, <<Str("message"), SerString(m)>>>>)

MessageText(f, m) ==
    ObjText(<<TypeMember("message"), <<Str("data"), SerString(MessageDataText(f, m))>>>>)

RegisterText(n) == ObjText(<<TypeMember("register"), <<Str("data"), SerString(n)>>>>)

UsersTexts == {UsersText(a) : a \in SeqsUpTo(Names, MaxUsers)} \cup {UsersAbsentText, UsersNullText}
MessageTexts == {MessageText(f, m) : f \in Names, m \in Bodies}

\* A Register envelope that also carries a dataArray.
RegisterArrayText(arr, n) ==
    ObjText(<<TypeMember("register"),
              <<Str("dataArray"), SerVecString(arr)>>,
              <<Str("data"), SerString(n)>>>>)

RegisterTexts ==
    {RegisterText(Str("alice")), RegisterArrayText(<<Str("alice")>>, Str("bob"))}

MalformedTexts ==
    { Str("garbage"),
      ObjText(<<TypeMember("ping")>>),
      ObjText(<<TypeMember("users"), <<Str("dataArray"), SerString(Str("alice"))>>>>),
      ObjText(<<TypeMember("message")>>),
      ObjText(<<TypeMember("message"), <<Str("data"), SerString(Str("hi"))>>>>),
      ObjText(<<TypeMember("message"),
                <<Str("data"), SerString(ObjText(<<<<Str("message"), SerString(Str("hi"))>>>>))>>>>) }

InboundTexts == UsersTexts \cup MessageTexts \cup RegisterTexts \cup MalformedTexts

(***************************************************************************)
(* Chat::create                                                            *)
(***************************************************************************)
\* Variant: the Register envelope carries no user name.
RegisterMessage_NoName(name) == WebSocketMessage("Register", None, None)

RegisterMessage(name) == WebSocketMessage("Register", None, Some(name))

\* wss.tx.clone().try_send(text): one attempt, accepted or rejected.
try_send(tx, text, ok) == Append(tx, [text |-> text, ok |-> ok])

CreateLog(ok) == IF ok THEN <<"message sent successfully">> ELSE <<>>

\* Variant: the component is built without bridging the bus.
bridge_Dropped(subs, c) == subs

\* EventBus::bridge(callback): the bus appends the new handler.
bridge(subs, c) == Append(subs, c)

\* Variant: a new component starts from the first component's roster and
\* history instead of empty ones.
Create_SharedStore(c, ok) ==
    /\ status[c] = "absent"
    /\ \A d \in Chats : d < c => status[d] # "absent"
    /\ wss' = [wss EXCEPT ![c] = try_send(<<>>, to_string(RegisterMessage(username)), ok)]
    /\ log' = [log EXCEPT ![c] = CreateLog(ok)]
    /\ users' = [users EXCEPT ![c] = users[1]]
    /\ messages' = [messages EXCEPT ![c] = messages[1]]
    /\ chat_input' = [chat_input EXCEPT ![c] = None]
    /\ subscribers' = bridge(subscribers, c)
    /\ status' = [status EXCEPT ![c] = "running"]
    /\ render_pending' = [render_pending EXCEPT ![c] = TRUE]
    /\ UNCHANGED <<username, ret, submits, deliveries, published, codec>>

Create(c, ok) ==
    /\ status[c] = "absent"
    /\ \A d \in Chats : d < c => status[d] # "absent"
    /\ wss' = [wss EXCEPT ![c] = try_send(<<>>, to_string(RegisterMessage(username)), ok)]
    /\ log' = [log EXCEPT ![c] = CreateLog(ok)]
    /\ users' = [users EXCEPT ![c] = <<>>]
    /\ messages' = [messages EXCEPT ![c] = <<>>]
    /\ chat_input' = [chat_input EXCEPT ![c] = None]
    /\ subscribers' = bridge(subscribers, c)
    /\ status' = [status EXCEPT ![c] = "running"]
    /\ render_pending' = [render_pending EXCEPT ![c] = TRUE]
    /\ UNCHANGED <<username, ret, submits, deliveries, published, codec>>

(***************************************************************************)
(* Chat::update                                                            *)
(***************************************************************************)
AvatarPrefix == "https://avatars.dicebear.com/api/adventurer-neutral/"

UserProfile(u) == [name |-> u, avatar |-> <<AvatarPrefix>> \o u \o <<".svg">>]

\* Variant: the roster is collected in reverse order.
UsersFromMessage_Reversed(data_array) ==
    LET users_from_message == IF data_array = None THEN <<>> ELSE data_array[1]
        n == Len(users_from_message)
    IN [i \in 1..n |-> UserProfile(users_from_message[n + 1 - i])]

\* Variant: an absent dataArray yields one placeholder profile.
UsersFromMessage_AbsentAsPlaceholder(data_array) ==
    LET users_from_message == IF data_array = None THEN <<EmptyStr>> ELSE data_array[1]
    IN [i \in DOMAIN users_from_message |-> UserProfile(users_from_message[i])]

UsersFromMessage(data_array) ==
    LET users_from_message == IF data_array = None THEN <<>> ELSE data_array[1]
    IN [i \in DOMAIN users_from_message |-> UserProfile(users_from_message[i])]

\* Variant: the new message is inserted at the front.
PushMessage_Front(ms, message_data) == <<message_data>> \o ms

\* Variant: the new message replaces the history.
PushMessage_Replace(ms, message_data) == <<message_data>>

\* Variant: the message is pushed twice.
PushMessage_Twice(ms, message_data) == Append(Append(ms, message_data), message_data)

PushMessage(ms, message_data) == Append(ms, message_data)

\* unwrap() on Err or None panics. The component is built for wasm, where a
\* panic aborts: nothing of the handler after the unwrap runs, and the
\* component handles no later event.
Panicked(self, where) == [self EXCEPT !.status = where]

\* Msg::HandleMsg(s) on one component; self = [status, users, messages, ret].
\* Variant: a received Register envelope adds the registering user to the
\* roster.
HandleMsg_RegisterAddsUser(self, s) ==
    Let(from_str_WebSocketMessage(s), LAMBDA msg :
        IF msg = Err THEN Panicked(self, "panicked:decode_envelope")
        ELSE IF msg[1].message_type = "Users"
        THEN [self EXCEPT !.users = UsersFromMessage(msg[1].data_array), !.ret = TRUE]
        ELSE IF msg[1].message_type = "Message"
        THEN IF msg[1].data = None THEN Panicked(self, "panicked:data_none")
             ELSE Let(from_str_MessageData(msg[1].data[1]), LAMBDA message_data :
                  IF message_data = Err THEN Panicked(self, "panicked:decode_message")
                  ELSE [self EXCEPT !.messages = PushMessage(@, message_data[1]),
                                    !.ret = TRUE])
        ELSE [self EXCEPT !.users = @ \o UsersFromMessage(
                                        IF msg[1].data = None THEN None
                                        ELSE Some(<<msg[1].data[1]>>)),
                          !.ret = FALSE])

\* Variant: a Users envelope equal to the current roster returns false.
HandleMsg_QuietWhenUnchanged(self, s) ==
    Let(from_str_WebSocketMessage(s), LAMBDA msg :
        IF msg = Err THEN Panicked(self, "panicked:decode_envelope")
        ELSE IF msg[1].message_type = "Users"
        THEN [self EXCEPT !.users = UsersFromMessage(msg[1].data_array),
                          !.ret = (UsersFromMessage(msg[1].data_array) # self.users)]
        ELSE IF msg[1].message_type = "Message"
        THEN IF msg[1].data = None THEN Panicked(self, "panicked:data_none")
             ELSE Let(from_str_MessageData(msg[1].data[1]), LAMBDA message_data :
                  IF message_data = Err THEN Panicked(self, "panicked:decode_message")
                  ELSE [self EXCEPT !.messages = PushMessage(@, message_data[1]),
                                    !.ret = TRUE])
        ELSE [self EXCEPT !.ret = FALSE])

\* Variant: a Message whose sender is missing from the roster adds the sender
\* to the roster.
HandleMsg_AdmitsUnknownSender(self, s) ==
    Let(from_str_WebSocketMessage(s), LAMBDA msg :
        IF msg = Err THEN Panicked(self, "panicked:decode_envelope")
        ELSE IF msg[1].message_type = "Users"
        THEN [self EXCEPT !.users = UsersFromMessage(msg[1].data_array), !.ret = TRUE]
        ELSE IF msg[1].message_type = "Message"
        THEN IF msg[1].data = None THEN Panicked(self, "panicked:data_none")
             ELSE Let(from_str_MessageData(msg[1].data[1]), LAMBDA message_data :
                  IF message_data = Err THEN Panicked(self, "panicked:decode_message")
                  ELSE [self EXCEPT !.messages = PushMessage(@, message_data[1]),
                                    !.users = IF \E i \in DOMAIN @ :
                                                    @[i].name = message_data[1].from
                                              THEN @
                                              ELSE Append(@, UserProfile(message_data[1].from)),
                                    !.ret = TRUE])
        ELSE [self EXCEPT !.ret = FALSE])

HandleMsg(self, s) ==
    Let(from_str_WebSocketMessage(s), LAMBDA msg :
        IF msg = Err THEN Panicked(self, "panicked:decode_envelope")
        ELSE IF msg[1].message_type = "Users"
        THEN [self EXCEPT !.users = UsersFromMessage(msg[1].data_array), !.ret = TRUE]
        ELSE IF msg[1].message_type = "Message"
        THEN IF msg[1].data = None THEN Panicked(self, "panicked:data_none")
             ELSE Let(from_str_MessageData(msg[1].data[1]), LAMBDA message_data :
                  IF message_data = Err THEN Panicked(self, "panicked:decode_message")
                  ELSE [self EXCEPT !.messages = PushMessage(@, message_data[1]),
                                    !.ret = TRUE])
        ELSE [self EXCEPT !.ret = FALSE])

\* Variant: the submitted text travels in dataArray, data is left out.
SubmitEnvelope_WithArray(value) == WebSocketMessage("Message", Some(<<value>>), None)

SubmitEnvelope(value) == WebSocketMessage("Message", None, Some(value))

\* Variant: a rejected send is not logged.
SubmitLog_Silent(ok) == <<>>

SubmitLog(ok) == IF ok THEN <<>> ELSE <<"error sending to channel">>

\* Variant: the input is cleared only when the send was accepted.
InputAfterSubmit_KeepOnFailure(value, ok) == IF ok THEN EmptyStr ELSE value

InputAfterSubmit(value, ok) == EmptyStr

TotalSubmits == LET RECURSIVE Sum(_)
                    Sum(c) == IF c = 0 THEN 0 ELSE submits[c] + Sum(c - 1)
                IN Sum(MaxChats)

\* Msg::SubmitMessage; the submit callback exists once view has run.
\* Variant: a rejected send clears the roster and the history.
SubmitMessage_ResetOnFailure(c, ok) ==
    /\ status[c] = "running"
    /\ chat_input[c] # None
    /\ TotalSubmits < MaxSubmit
    /\ submits' = [submits EXCEPT ![c] = @ + 1]
    /\ LET input == chat_input[c] IN
       IF input # None
       THEN /\ wss' = [wss EXCEPT ![c] = try_send(@, to_string(SubmitEnvelope(input[1])), ok)]
            /\ log' = [log EXCEPT ![c] = @ \o SubmitLog(ok)]
            /\ chat_input' = [chat_input EXCEPT ![c] = Some(InputAfterSubmit(input[1], ok))]
            /\ users' = [users EXCEPT ![c] = IF ok THEN @ ELSE <<>>]
            /\ messages' = [messages EXCEPT ![c] = IF ok THEN @ ELSE <<>>]
       ELSE UNCHANGED <<wss, log, chat_input, users, messages>>
    /\ ret' = [ret EXCEPT ![c] = FALSE]
    /\ UNCHANGED <<username, status, render_pending, subscribers,
                   deliveries, published, codec>>

\* Variant: the submitted text is appended to the history at once (local echo).
SubmitMessage_LocalEcho(c, ok) ==
    /\ status[c] = "running"
    /\ chat_input[c] # None
    /\ TotalSubmits < MaxSubmit
    /\ submits' = [submits EXCEPT ![c] = @ + 1]
    /\ LET input == chat_input[c] IN
       IF input # None
       THEN /\ wss' = [wss EXCEPT ![c] = try_send(@, to_string(SubmitEnvelope(input[1])), ok)]
            /\ log' = [log EXCEPT ![c] = @ \o SubmitLog(ok)]
            /\ chat_input' = [chat_input EXCEPT ![c] = Some(InputAfterSubmit(input[1], ok))]
            /\ messages' = [messages EXCEPT ![c] = Append(@, MessageData(username, input[1]))]
            /\ UNCHANGED users
       ELSE UNCHANGED <<wss, log, chat_input, users, messages>>
    /\ ret' = [ret EXCEPT ![c] = FALSE]
    /\ UNCHANGED <<username, status, render_pending, subscribers,
                   deliveries, published, codec>>

SubmitMessage(c, ok) ==
    /\ status[c] = "running"
    /\ chat_input[c] # None
    /\ TotalSubmits < MaxSubmit
    /\ submits' = [submits EXCEPT ![c] = @ + 1]
    /\ LET input == chat_input[c] IN
       IF input # None
       THEN /\ wss' = [wss EXCEPT ![c] = try_send(@, to_string(SubmitEnvelope(input[1])), ok)]
            /\ log' = [log EXCEPT ![c] = @ \o SubmitLog(ok)]
            /\ chat_input' = [chat_input EXCEPT ![c] = Some(InputAfterSubmit(input[1], ok))]
       ELSE UNCHANGED <<wss, log, chat_input>>
    /\ ret' = [ret EXCEPT ![c] = FALSE]
    /\ UNCHANGED <<username, status, users, messages, render_pending, subscribers,
                   deliveries, published, codec>>

(***************************************************************************)
(* Chat::view, run by the framework after create and after update = true   *)
(***************************************************************************)
LookupMiss(us, ms) ==
    \E i \in DOMAIN ms : ~ \E j \in DOMAIN us : us[j].name = ms[i].from

Render(c) ==
    /\ status[c] = "running"
    /\ render_pending[c]
    /\ render_pending' = [render_pending EXCEPT ![c] = FALSE]
    /\ IF LookupMiss(users[c], messages[c])
       THEN /\ status' = [status EXCEPT ![c] = "panicked:roster_lookup"]
            /\ UNCHANGED chat_input
       ELSE /\ chat_input' = [chat_input EXCEPT ![c] = IF @ = None THEN Some(EmptyStr) ELSE @]
            /\ UNCHANGED status
    /\ UNCHANGED <<username, users, messages, wss, log, ret, submits, subscribers,
                   deliveries, published, codec>>

\* The user edits the text of the input element.
TypeInput(c, t) ==
    /\ status[c] = "running"
    /\ chat_input[c] # None
    /\ chat_input[c] # Some(t)
    /\ chat_input' = [chat_input EXCEPT ![c] = Some(t)]
    /\ UNCHANGED <<username, status, users, messages, wss, log, render_pending, ret,
                   submits, subscribers, deliveries, published, codec>>

(***************************************************************************)
(* Event bus: publish                                                      *)
(***************************************************************************)
Self(st, c) == [status |-> st.status[c], users |-> st.users[c],
                messages |-> st.messages[c], ret |-> st.ret[c]]

\* The link callback Msg::HandleMsg of chat c runs update, then schedules a
\* render when update returned true.
Invoke(st, c, s) ==
    IF st.status[c] # "running" THEN st
    ELSE Let(HandleMsg(Self(st, c), s), LAMBDA after :
         [st EXCEPT !.status[c] = after.status,
                    !.users[c] = after.users,
                    !.messages[c] = after.messages,
                    !.ret[c] = after.ret,
                    !.render_pending[c] = IF after.status = "running" /\ after.ret
                                          THEN TRUE ELSE @])

\* Handlers are invoked in subscription order; a handler that fails does
\* not stop the delivery to the handlers after it.
RECURSIVE Deliver(_, _, _, _)
Deliver(subs, i, s, st) ==
    IF i > Len(subs) THEN st
    ELSE Let([st EXCEPT !.deliveries = Append(@, <<subs[i], s>>)], LAMBDA noted :
         Let(Invoke(noted, subs[i], s), LAMBDA after :
             Deliver(subs, i + 1, s, after)))

\* The reader task of a WebsocketService (one per created Chat) publishes
\* every text frame it receives.
Publish(s) ==
    /\ \E c \in Chats : status[c] # "absent"
    /\ published < MaxPublish
    /\ published' = published + 1
    /\ \E st \in {Deliver(subscribers, 1, s,
                            [status |-> status, users |-> users, messages |-> messages,
                             ret |-> ret, render_pending |-> render_pending,
                             deliveries |-> deliveries])} :
          /\ status' = st.status
          /\ users' = st.users
          /\ messages' = st.messages
          /\ ret' = st.ret
          /\ render_pending' = st.render_pending
          /\ deliveries' = st.deliveries
    /\ UNCHANGED <<username, chat_input, wss, log, submits, subscribers, codec>>

(***************************************************************************)
(* Specification of the component                                          *)
(***************************************************************************)
CodecIdle == [phase |-> "idle", e |-> WebSocketMessage("Register", None, None),
              text |-> <<>>, back |-> Err]

InitChats ==
    /\ username \in Names
    /\ status = [c \in Chats |-> "absent"]
    /\ users = [c \in Chats |-> <<>>]
    /\ messages = [c \in Chats |-> <<>>]
    /\ chat_input = [c \in Chats |-> None]
    /\ wss = [c \in Chats |-> <<>>]
    /\ log = [c \in Chats |-> <<>>]
    /\ render_pending = [c \in Chats |-> FALSE]
    /\ ret = [c \in Chats |-> FALSE]
    /\ submits = [c \in Chats |-> 0]
    /\ subscribers = <<>>
    /\ deliveries = <<>>
    /\ published = 0

Init == InitChats /\ codec = CodecIdle

\* The application mounts one Chat: create, bus deliveries, renders, typing
\* and submits of that component.
Mounted == {1}

Next ==
    \/ \E c \in Mounted, ok \in BOOLEAN : Create(c, ok)
    \/ \E s \in InboundTexts : Publish(s)
    \/ \E c \in Mounted, ok \in BOOLEAN : SubmitMessage(c, ok)
    \/ \E c \in Mounted : Render(c)
    \/ \E c \in Mounted, t \in TypedTexts : TypeInput(c, t)

Spec == Init /\ [][Next]_vars

\* Several Chat consumers bridged to the one bus.
NextBus ==
    \/ \E c \in Chats, ok \in BOOLEAN : Create(c, ok)
    \/ \E s \in InboundTexts : Publish(s)
    \/ \E c \in Chats : Render(c)

SpecBus == Init /\ [][NextBus]_vars

(***************************************************************************)
(* Specification of the codec: encode an envelope, decode the text         *)
(***************************************************************************)
CodecStrings ==
    {EmptyStr, Str("alice"), <<"say", QUOTE, "hi", QUOTE>>, <<BSLASH, "n">>,
     MessageDataText(Str("alice"), Str("hi"))}

Envelopes ==
    {WebSocketMessage(t, da, d) :
        t \in MsgTypes,
        da \in {None} \cup {Some(a) : a \in SeqsUpTo(CodecStrings, MaxArr)},
        d \in {None} \cup {Some(x) : x \in CodecStrings}}

InitCodec ==
    /\ InitChats
    /\ \E e \in Envelopes :
          codec = [phase |-> "built", e |-> e, text |-> <<>>, back |-> Err]

MainVars == <<username, status, users, messages, chat_input, wss, log,
              render_pending, ret, submits, subscribers, deliveries, published>>

CodecEncode ==
    /\ codec.phase = "built"
    /\ codec' = [codec EXCEPT !.phase = "encoded", !.text = to_string(codec.e)]
    /\ UNCHANGED MainVars

CodecDecode ==
    /\ codec.phase = "encoded"
    /\ codec' = [codec EXCEPT !.phase = "decoded",
                              !.back = from_str_WebSocketMessage(codec.text)]
    /\ UNCHANGED MainVars

NextCodec == CodecEncode \/ CodecDecode

SpecCodec == InitCodec /\ [][NextCodec]_vars

(***************************************************************************)
(* Properties                                                              *)
(***************************************************************************)
Created(c) == status[c] # "absent"

\* The payloads the bus handed to chat c's handler, in order.
Received(c) ==
    LET mine == SelectSeq(deliveries, LAMBDA d : d[1] = c)
    IN [i \in DOMAIN mine |-> mine[i][2]]

EnvelopeOf(s) == from_str_WebSocketMessage(s)

HasType(s, t) == EnvelopeOf(s) # Err /\ EnvelopeOf(s)[1].message_type = t

IsUsersText(s) == HasType(s, "Users")

ChatMessageOf(s) ==
    IF HasType(s, "Message") /\ EnvelopeOf(s)[1].data # None
    THEN from_str_MessageData(EnvelopeOf(s)[1].data[1])
    ELSE Err

IsMessageText(s) == ChatMessageOf(s) # Err

IsValidText(s) == EnvelopeOf(s) # Err /\ (HasType(s, "Message") => IsMessageText(s))

ExpectedRoster(data_array) ==
    LET arr == IF data_array = None THEN <<>> ELSE data_array[1]
    IN [i \in 1..Len(arr) |->
          [name |-> arr[i],
           avatar |-> <<"https://avatars.dicebear.com/api/adventurer-neutral/">>
                      \o arr[i] \o <<".svg">>]]

RosterAfter(texts) ==
    LET us == SelectSeq(texts, IsUsersText)
    IN IF us = <<>> THEN <<>> ELSE ExpectedRoster(EnvelopeOf(us[Len(us)])[1].data_array)

HistoryAfter(texts) ==
    LET ms == SelectSeq(texts, IsMessageText)
    IN [i \in DOMAIN ms |-> ChatMessageOf(ms[i])[1]]

\* C1: after any sequence of valid envelopes handled by update, the roster
\* is exactly the dataArray of the most recent Users envelope, entry by
\* entry, in order, duplicates kept, each with the templated avatar; nothing
\* of an earlier Users envelope survives.
C1_RosterIsLatestUsers ==
    \A c \in Chats :
        status[c] = "running" => users[c] = RosterAfter(Received(c))

C1_Witness ==
    \E c \in Chats :
        LET us == SelectSeq(Received(c), IsUsersText) IN
        /\ status[c] = "running"
        /\ Len(us) = 2
        /\ us[1] = UsersText(<<Str("alice"), Str("bob")>>)
        /\ us[2] = UsersText(<<Str("bob"), Str("bob")>>)
        /\ Len(users[c]) = 2

\* C2: the history of a chat is the sequence of ChatMessages decoded from
\* the Message envelopes update handled, one per envelope, in receipt order.
C2_HistoryIsReceivedMessages ==
    \A c \in Chats :
        status[c] = "running" =>
            /\ Len(messages[c]) = Len(SelectSeq(Received(c), IsMessageText))
            /\ messages[c] = HistoryAfter(Received(c))

C2_Witness ==
    \E c \in Chats :
        /\ status[c] = "running"
        /\ Len(messages[c]) = 2
        /\ messages[c][1] # messages[c][2]
        /\ Received(c)[1] = MessageText(messages[c][1].from, messages[c][1].message)

\* C3: in every step the history before the step is a prefix of the history
\* after it.
C3_HistoryAppendOnly ==
    [][\A c \in Chats : IsPrefix(messages[c], messages'[c])]_vars

C3_Witness ==
    \E c \in Chats :
        /\ Len(messages[c]) = 1
        /\ users[c] # <<>>
        /\ submits[c] = 1
        /\ ~render_pending[c]

\* C4: whenever the view is about to run, every message of the history has
\* a roster entry whose name is its `from`.
C4_EveryMessageHasProfile ==
    \A c \in Chats :
        (status[c] = "running" /\ render_pending[c]) =>
            \A i \in DOMAIN messages[c] :
                \E j \in DOMAIN users[c] : users[c][j].name = messages[c][i].from

\* C5: a malformed payload changes nothing and the stream continues: roster
\* and history are those of the valid envelopes delivered so far, malformed
\* ones skipped (a chat stopped by the roster lookup of view is left aside).
C5_StreamSurvivesMalformed ==
    \A c \in Chats :
        (Created(c) /\ status[c] # "panicked:roster_lookup") =>
            LET valid == SelectSeq(Received(c), IsValidText) IN
            /\ users[c] = RosterAfter(valid)
            /\ messages[c] = HistoryAfter(valid)

\* C6: a publish while K chats are bridged invokes the handler of each of
\* the K chats exactly once with the payload, in subscription (creation)
\* order, whether or not an earlier handler failed on it, and each running
\* chat's update is applied to it.
Consumers == [i \in 1..Cardinality({c \in Chats : Created(c)}) |-> i]

C7_SubmitSendsOnceAndClears ==
    [][\A c \in Chats :
        (submits'[c] = submits[c] + 1 /\ chat_input[c] # None) =>
            /\ Len(wss'[c]) = Len(wss[c]) + 1
            /\ SubSeq(wss'[c], 1, Len(wss[c])) = wss[c]
            /\ from_str_WebSocketMessage(wss'[c][Len(wss'[c])].text)
                 = Ok([message_type |-> "Message", data_array |-> None,
                       data |-> Some(chat_input[c][1])])
            /\ chat_input'[c] = Some(EmptyStr)]_vars

C7_Witness ==
    \E c \in Chats :
        /\ submits[c] = 1
        /\ Len(wss[c]) = 2
        /\ ~wss[c][2].ok
        /\ wss[c][2].text = to_string(WebSocketMessage("Message", None, Some(Str("hello.gif"))))
        /\ chat_input[c] = Some(EmptyStr)

CountOf(seq, x) == Cardinality({i \in DOMAIN seq : seq[i] = x})

Rejected(c) == {i \in DOMAIN wss[c] : ~wss[c][i].ok}

\* C8 as stated: every rejected send, the Register of create and the
\* Message of a submit alike, leaves a log entry for the failure, and there
\* is one send attempt per create and per submit.
C8_EveryRejectedSendLogged ==
    \A c \in Chats :
        Created(c) =>
            /\ Len(wss[c]) = 1 + submits[c]
            /\ Cardinality(Rejected(c)) = Len(log[c]) - CountOf(log[c], "message sent successfully")

\* C8 amended: a send attempt is made once per create and once per submit
\* and never repeated; a rejected Message send of a submit writes one
\* failure line, a rejected Register send of create writes nothing (create
\* logs only an accepted send); a rejected send changes neither roster nor
\* history, stops nothing and asks for no render.
C8_RejectedSendHandling ==
    [][\A c \in Chats :
        /\ wss'[c] = wss[c] => log'[c] = log[c]
        /\ wss'[c] # wss[c] =>
            /\ Len(wss'[c]) = Len(wss[c]) + 1
            /\ SubSeq(wss'[c], 1, Len(wss[c])) = wss[c]
            /\ \/ ~Created(c) /\ Len(wss[c]) = 0
               \/ Created(c) /\ submits'[c] = submits[c] + 1
            /\ ~wss'[c][Len(wss'[c])].ok =>
                /\ log'[c] = IF Created(c)
                             THEN Append(log[c], "error sending to channel")
                             ELSE <<>>
                /\ users'[c] = users[c]
                /\ messages'[c] = messages[c]
                /\ status'[c] = "running"
                /\ Created(c) => (render_pending'[c] = render_pending[c] /\ ~ret'[c])]_vars

C8_Witness ==
    \E c \in Chats :
        /\ Len(wss[c]) = 2
        /\ ~wss[c][1].ok
        /\ ~wss[c][2].ok
        /\ log[c] = <<"error sending to channel">>
        /\ status[c] = "running"

\* C9: create makes exactly one send attempt, of the Register envelope that
\* carries the local user name and no dataArray; accepted or rejected, the
\* chat is then running with empty roster and history and is bridged to the
\* bus; no later send of the chat is a Register envelope.
C9_CreateRegistersOnce ==
    [][\A c \in Chats :
        /\ (~Created(c) /\ status'[c] # "absent") =>
            /\ status'[c] = "running"
            /\ users'[c] = <<>>
            /\ messages'[c] = <<>>
            /\ c \in Range(subscribers')
            /\ Len(wss'[c]) = 1
            /\ from_str_WebSocketMessage(wss'[c][1].text)
                 = Ok([message_type |-> "Register", data_array |-> None,
                       data |-> Some(username)])
        /\ Created(c) =>
            /\ IsPrefix(wss[c], wss'[c])
            /\ \A i \in (Len(wss[c]) + 1)..Len(wss'[c]) :
                  ~HasType(wss'[c][i].text, "Register")]_vars

C9_Witness ==
    \E c \in Chats :
        /\ status[c] = "running"
        /\ Len(wss[c]) = 2
        /\ ~wss[c][1].ok
        /\ HasType(wss[c][1].text, "Register")
        /\ c \in Range(subscribers)
        /\ published > 0

\* C10: decoding the encoding of an envelope gives the envelope back, for
\* each messageType, dataArray absent or any sequence of strings, data
\* absent or any string.
C10_CodecRoundTrip ==
    codec.phase = "decoded" => codec.back = Ok(codec.e)

C10_Witness ==
    /\ codec.phase = "decoded"
    /\ codec.e.message_type = "Users"
    /\ codec.e.data_array = Some(<<<<BSLASH, "n">>, <<"say", QUOTE, "hi", QUOTE>>>>)
    /\ codec.e.data = Some(MessageDataText(Str("alice"), Str("hi")))
    /\ codec.back # Err

\* C11: a chat created after some payloads were published starts with empty
\* roster and history and with nothing delivered to it; from then on it is
\* handed exactly one payload per publish, and while it runs its roster and
\* history are those of the payloads delivered to it since its subscription.
C11_NoReplayForLateSubscriber ==
    [][\A c \in Chats :
        /\ ~Created(c) => Received(c) = <<>>
        /\ (~Created(c) /\ status'[c] # "absent") =>
            /\ users'[c] = <<>>
            /\ messages'[c] = <<>>
            /\ Received(c)' = <<>>
            /\ published' = published
        /\ Created(c) =>
            /\ IsPrefix(Received(c), Received(c)')
            /\ Len(Received(c)') - Len(Received(c)) = published' - published
        /\ status'[c] = "running" =>
            /\ users'[c] = RosterAfter(Received(c)')
            /\ messages'[c] = HistoryAfter(Received(c)')]_vars

C11_Witness ==
    /\ status[2] = "running"
    /\ published = 2
    /\ Len(Received(1)) = 2
    /\ Received(2) = <<UsersText(<<Str("bob")>>)>>
    /\ Len(messages[1]) = 1
    /\ messages[2] = <<>>
    /\ Len(users[2]) = 1

\* The payload of the publish that a step performs (the last delivery made).
Publishes == published' = published + 1 /\ Len(deliveries') > Len(deliveries)

Payload == deliveries'[Len(deliveries')][2]

\* C12: handling a received Register envelope, whatever its data and
\* dataArray hold, leaves every chat's roster and history as they were, sends
\* nothing to the transport and does not stop the chat.
C12_RegisterIsIgnored ==
    [][(Publishes /\ HasType(Payload, "Register")) =>
          /\ users' = users
          /\ messages' = messages
          /\ wss' = wss
          /\ status' = status]_vars

C12_Witness ==
    /\ status[1] = "running"
    /\ Received(1) = <<UsersText(<<Str("alice")>>),
                       RegisterArrayText(<<Str("alice")>>, Str("bob"))>>
    /\ users[1] = ExpectedRoster(Some(<<Str("alice")>>))
    /\ messages[1] = <<>>
    /\ Len(wss[1]) = 1

\* The Store of a chat (roster and history), and the effect one valid
\* envelope has on it, written from the wire text.
StoreOf(c) == [users |-> users[c], messages |-> messages[c]]

EmptyStore == [users |-> <<>>, messages |-> <<>>]

ApplyOne(store, s) ==
    IF IsUsersText(s)
    THEN [store EXCEPT !.users = ExpectedRoster(EnvelopeOf(s)[1].data_array)]
    ELSE IF IsMessageText(s)
    THEN [store EXCEPT !.messages = Append(@, ChatMessageOf(s)[1])]
    ELSE store

RECURSIVE ApplyAll(_, _)
ApplyAll(store, texts) ==
    IF texts = <<>> THEN store
    ELSE ApplyAll(ApplyOne(store, Head(texts)), Tail(texts))

\* C13: a chat that handles envelopes applies them one at a time in delivery
\* order: every publish hands it one payload and moves its Store by exactly
\* that envelope's effect, so after the k-th delivery the Store is the result
\* of applying envelopes 1..k in order to the empty Store.
C13_AppliedOneAtATimeInOrder ==
    [][\A c \in Chats :
        /\ (status'[c] = "running" /\ subscribers'[1] = c) =>
            /\ Len(Received(c)') = published'
            /\ StoreOf(c)' = ApplyAll(EmptyStore, Received(c)')
        /\ (Publishes /\ status[c] = "running" /\ status'[c] = "running") =>
            /\ Received(c)' = Append(Received(c), Payload)
            /\ StoreOf(c)' = ApplyOne(StoreOf(c), Payload)]_vars

C13_Witness ==
    /\ status[1] = "running"
    /\ Received(1) = <<MessageText(Str("bob"), Str("hi")), UsersText(<<Str("alice"), Str("bob")>>)>>
    /\ Len(users[1]) = 2
    /\ Len(messages[1]) = 1
    /\ published = 2

\* C14: roster and history are a function of the received envelopes alone:
\* the Store of a chat is always that of a prefix of the payloads delivered to
\* it (all of them while it runs), a step that delivers nothing leaves the
\* Store of every created chat as it is, and a new chat's Store is empty
\* whether or not its Register was accepted; typed text, submits and send
\* outcomes do not enter.
C14_StoreDependsOnReceivedOnly ==
    [][\A c \in Chats :
        /\ Created(c)' =>
            \E k \in 0..Len(Received(c)') :
                /\ StoreOf(c)' = ApplyAll(EmptyStore, SubSeq(Received(c)', 1, k))
                /\ status'[c] = "running" => k = Len(Received(c)')
        /\ (Created(c) /\ Received(c)' = Received(c)) => StoreOf(c)' = StoreOf(c)
        /\ (~Created(c) /\ Created(c)') => StoreOf(c)' = EmptyStore]_vars

C14_Witness ==
    /\ status[1] = "running"
    /\ submits[1] = 1
    /\ Len(wss[1]) = 2
    /\ ~wss[1][1].ok
    /\ ~wss[1][2].ok
    /\ chat_input[1] = Some(EmptyStr)
    /\ Received(1) = <<UsersText(<<Str("alice")>>), MessageText(Str("alice"), Str("hi"))>>
    /\ StoreOf(1) = ApplyAll(EmptyStore, Received(1))
    /\ Len(messages[1]) = 1

\* A step in which chat c handles Msg::SubmitMessage.
Submits(c) == submits'[c] = submits[c] + 1

\* C15: a submit leaves every chat's roster and history as they were, and the
\* history grows only on a step that delivers a Message envelope, by the
\* message that envelope carries: what was submitted is not echoed locally.
C15_SubmitLeavesStoreAlone ==
    [][\A c \in Chats :
        /\ Submits(c) => (users' = users /\ messages' = messages)
        /\ messages'[c] # messages[c] =>
            /\ Publishes
            /\ IsMessageText(Payload)
            /\ messages'[c] = Append(messages[c], ChatMessageOf(Payload)[1])]_vars

C15_Witness ==
    /\ status[1] = "running"
    /\ submits[1] = 1
    /\ wss[1][2] = [text |-> to_string(SubmitEnvelope(Str("hello.gif"))), ok |-> TRUE]
    /\ users[1] = ExpectedRoster(Some(<<Str("alice")>>))
    /\ messages[1] = <<>>
    /\ chat_input[1] = Some(EmptyStr)

\* The chats whose handler a publish invokes and that are handling events.
Handles(c) == status[c] = "running" /\ c \in Range(subscribers)

\* C16: a Users envelope whose dataArray is absent (left out or null) is
\* handled without error: the chat keeps running, its roster becomes empty
\* whatever it was, its history is unchanged and update returns true.
C16_UsersWithoutArrayEmptiesRoster ==
    [][(/\ Publishes
        /\ IsUsersText(Payload)
        /\ EnvelopeOf(Payload)[1].data_array = None) =>
          \A c \in Chats : Handles(c) =>
              /\ status'[c] = "running"
              /\ users'[c] = <<>>
              /\ messages'[c] = messages[c]
              /\ ret'[c] = TRUE
              /\ render_pending'[c]]_vars

C16_Witness ==
    /\ status[1] = "running"
    /\ Received(1) = <<UsersText(<<Str("alice"), Str("bob")>>), UsersAbsentText>>
    /\ users[1] = <<>>
    /\ ret[1] = TRUE
    /\ render_pending[1]

\* C17: update returns true exactly when the event it handled is a decoded
\* Users or Message envelope, also when the Users envelope repeats the
\* current roster; it returns false for a Register envelope and for every
\* submit, whether the send was accepted or rejected.
C17_RerenderSignal ==
    [][\A c \in Chats :
        /\ (Publishes /\ Handles(c)) =>
            /\ (IsUsersText(Payload) \/ IsMessageText(Payload)) =>
                  (status'[c] = "running" /\ ret'[c] = TRUE /\ render_pending'[c])
            /\ HasType(Payload, "Register") =>
                  (status'[c] = "running" /\ ret'[c] = FALSE
                   /\ render_pending'[c] = render_pending[c])
            /\ status'[c] = "running" =>
                  (ret'[c] <=> (IsUsersText(Payload) \/ IsMessageText(Payload)))
        /\ Submits(c) => (ret'[c] = FALSE /\ render_pending' = render_pending)]_vars

C17_Witness ==
    /\ status[1] = "running"
    /\ Received(1) = <<UsersText(<<Str("alice")>>), UsersText(<<Str("alice")>>)>>
    /\ users[1] = ExpectedRoster(Some(<<Str("alice")>>))
    /\ ret[1] = TRUE
    /\ render_pending[1]
    /\ chat_input[1] # None

\* The envelope a transport send carried, decoded from the text handed over.
SentEnvelope(c, i) == from_str_WebSocketMessage(wss[c][i].text)

\* C18: every envelope handed to the transport, accepted or not, decodes to
\* messageType Register or Message (never Users) with data present and
\* dataArray absent; the first one a chat attempts is the Register carrying
\* the user name, every later one is a Message.
C18_OutboundEnvelopeShape ==
    \A c \in Chats :
        /\ Created(c) <=> wss[c] # <<>>
        /\ \A i \in DOMAIN wss[c] :
            /\ SentEnvelope(c, i) # Err
            /\ SentEnvelope(c, i)[1].message_type \in {"Register", "Message"}
            /\ SentEnvelope(c, i)[1].data # None
            /\ SentEnvelope(c, i)[1].data_array = None
            /\ (i = 1) <=> (SentEnvelope(c, i)[1].message_type = "Register")
            /\ (i = 1) => (SentEnvelope(c, i)[1].data = Some(username))

C18_Witness ==
    /\ Len(wss[1]) = 2
    /\ ~wss[1][1].ok
    /\ SentEnvelope(1, 2) = Ok(WebSocketMessage("Message", None,
                                                Some(<<"say", QUOTE, "hi", QUOTE>>)))

\* C19: a Users envelope leaves the history of the chat handling it
\* unchanged; a Message envelope leaves its roster unchanged and appends the
\* message, also when the sender is missing from the roster.
C19_UsersAndMessageAreIndependent ==
    [][\A c \in Chats : (Publishes /\ Handles(c)) =>
        /\ IsUsersText(Payload) => messages'[c] = messages[c]
        /\ IsMessageText(Payload) =>
            /\ users'[c] = users[c]
            /\ Len(messages'[c]) = Len(messages[c]) + 1
            /\ messages'[c][Len(messages'[c])] = ChatMessageOf(Payload)[1]]_vars

C19_Witness ==
    /\ Received(1) = <<UsersText(<<Str("alice")>>), MessageText(Str("bob"), Str("hi"))>>
    /\ users[1] = ExpectedRoster(Some(<<Str("alice")>>))
    /\ messages[1] = <<MessageData(Str("bob"), Str("hi"))>>
    /\ LookupMiss(users[1], messages[1])

====
